---- MODULE Spec2Model ----
(***************************************************************************)
(* Forward squeeze transform of lib/jxl/modular/transform/enc_squeeze.cc:  *)
(* the horizontal and vertical lifting steps (FwdHSqueeze, FwdVSqueeze)    *)
(* and the pipeline driver (FwdSqueeze).                                   *)
(*                                                                         *)
(* A Channel is a record [w, h, hshift, vshift, px]; px[y][x] is the       *)
(* sample in row y, column x, both counted from 0 as in the source.        *)
(* Image::channel is a sequence of Channels; slot c of the source is       *)
(* element c + 1 of the sequence.                                          *)
(***************************************************************************)
EXTENDS Integers, Sequences, FiniteSets, TLC

VARIABLES
  image,      \* input.channel, the channel sequence of the Image
  pc,         \* position of the running function
  result,     \* the Status value returned ("none" while running)
  cause,      \* history: why the call returned
  cur,        \* the parameter set of the current loop iteration
  pi,         \* number of parameter sets taken from the sequence so far
  c,          \* loop variable c of the inner for loop
  endc,       \* local endc
  offset,     \* local offset
  stepsDone,  \* history: number of completed step calls
  image0,     \* history: the channel sequence when the call began
  imageSet,   \* history: the channel sequence when the current set began
  imageStep,  \* history: the channel sequence when the last step began
  lastCall,   \* history: the arguments of the last step call
  recon,      \* output of the inverse horizontal step
  oracle      \* which tendency function is linked in

vars == <<image, pc, result, cause, cur, pi, c, endc, offset, stepsDone,
          image0, imageSet, imageStep, lastCall, recon, oracle>>

(***************************************************************************)
(* Bounds of the model.                                                    *)
(***************************************************************************)
MaxCells == 4      \* most samples of a channel drawn for the single steps
MaxVal == 2        \* samples are drawn from -MaxVal..MaxVal
MaxChannels == 2   \* most channels of the image at the call
MaxBeginC == 1     \* largest begin_c drawn
MaxNumC == 2       \* largest num_c drawn
MaxParams == 2     \* most parameter sets in one call

(***************************************************************************)
(* Integer helpers: C++ semantics of >>, / and & on signed integers.       *)
(***************************************************************************)
Abs(a) == IF a < 0 THEN -a ELSE a

\* a / b of C++ for b > 0: the quotient truncated toward zero.
TruncDiv(a, b) == IF a >= 0 THEN a \div b ELSE -((-a) \div b)

\* X >> 1 on a signed integer: arithmetic shift, the floor of X / 2.
Shr1(X) == X \div 2

AVERAGE_RoundDown(X, Y) == Shr1(X + Y)

AVERAGE_TowardSecond(X, Y) == Shr1(X + Y + (IF X < Y THEN 1 ELSE 0))

\* #define AVERAGE(X, Y) (((X) + (Y) + (((X) > (Y)) ? 1 : 0)) >> 1)
AVERAGE(X, Y) == Shr1(X + Y + (IF X > Y THEN 1 ELSE 0))

(***************************************************************************)
(* The tendency predictor.  SmoothTendency is the reference heuristic; the *)
(* other oracles stand for "any fixed deterministic function" of the three *)
(* arguments.                                                              *)
(***************************************************************************)
TendencyOracles == {"smooth", "zero", "slope"}

SmoothTendencyRef(B, a, n) ==
  IF B >= a /\ a >= n
    THEN LET d0 == TruncDiv(4 * B - 3 * n - a + 6, 12)
             d1 == IF d0 - (d0 % 2) > 2 * (B - a) THEN 2 * (B - a) + 1 ELSE d0
             d2 == IF d1 + (d1 % 2) > 2 * (a - n) THEN 2 * (a - n) ELSE d1
         IN  d2
    ELSE IF B <= a /\ a <= n
      THEN LET d0 == TruncDiv(4 * B - 3 * n - a - 6, 12)
               d1 == IF d0 + (d0 % 2) < 2 * (B - a) THEN 2 * (B - a) - 1 ELSE d0
               d2 == IF d1 - (d1 % 2) < 2 * (a - n) THEN 2 * (a - n) ELSE d1
           IN  d2
      ELSE 0

SmoothTendency(B, a, n) ==
  CASE oracle = "smooth" -> SmoothTendencyRef(B, a, n)
    [] oracle = "zero"   -> 0
    [] oracle = "slope"  -> B - 2 * n + a

(***************************************************************************)
(* Channels.                                                               *)
(***************************************************************************)
MkChannel(w, h, hshift, vshift, px) ==
  [w |-> w, h |-> h, hshift |-> hshift, vshift |-> vshift, px |-> px]

\* The arguments the predictor is called with for residual column x of a
\* row p_in: <<left, avg, next_avg>>.
HPredictorArgs_ReadsPair(p_in, chinw, resw, x) ==
  LET avg == AVERAGE(p_in[x * 2], p_in[x * 2 + 1])
      next_avg == IF x + 1 < resw
                    THEN AVERAGE(p_in[x * 2 + 2], p_in[x * 2 + 3])
                    ELSE IF chinw % 2 = 1 THEN p_in[x * 2 + 2] ELSE avg
      left == IF x > 0 THEN p_in[x * 2 - 1] ELSE p_in[x * 2]
  IN  <<left, avg, next_avg>>

HPredictorArgs(p_in, chinw, resw, x) ==
  LET A == p_in[x * 2]
      B == p_in[x * 2 + 1]
      avg == AVERAGE(A, B)
      next_avg == IF x + 1 < resw
                    THEN AVERAGE(p_in[x * 2 + 2], p_in[x * 2 + 3])
                    ELSE IF chinw % 2 = 1 THEN p_in[x * 2 + 2] ELSE avg
      left == IF x > 0 THEN p_in[x * 2 - 1] ELSE avg
  IN  <<left, avg, next_avg>>

\* p_res[x] of one row.
HResidualAt(p_in, chinw, resw, x) ==
  LET args == HPredictorArgs(p_in, chinw, resw, x)
      diff == p_in[x * 2] - p_in[x * 2 + 1]
  IN  diff - SmoothTendency(args[1], args[2], args[3])

HChout_DropsTail(chin) ==
  LET choutw == (chin.w + 1) \div 2
      resw == chin.w - choutw
  IN  MkChannel(choutw, chin.h, chin.hshift + 1, chin.vshift,
        [y \in 0..(chin.h - 1) |->
          [x \in 0..(choutw - 1) |->
            IF x < resw
              THEN AVERAGE(chin.px[y][x * 2], chin.px[y][x * 2 + 1])
              ELSE 0]])

\* chout of the horizontal step: the loop of lines 41-70 as it fills p_out.
HChout(chin) ==
  LET choutw == (chin.w + 1) \div 2
      resw == chin.w - choutw
  IN  MkChannel(choutw, chin.h, chin.hshift + 1, chin.vshift,
        [y \in 0..(chin.h - 1) |->
          [x \in 0..(choutw - 1) |->
            IF x < resw
              THEN AVERAGE(chin.px[y][x * 2], chin.px[y][x * 2 + 1])
              ELSE chin.px[y][x * 2]]])

\* chout_residual of the horizontal step.
HResidual(chin) ==
  LET choutw == (chin.w + 1) \div 2
      resw == chin.w - choutw
  IN  MkChannel(resw, chin.h, chin.hshift + 1, chin.vshift,
        [y \in 0..(chin.h - 1) |->
          [x \in 0..(resw - 1) |-> HResidualAt(chin.px[y], chin.w, resw, x)]])

VPredictorArgs_TopTwoRowsUp(chin, resh, y, x) ==
  LET avg == AVERAGE(chin.px[y * 2][x], chin.px[y * 2 + 1][x])
      next_avg == IF y + 1 < resh
                    THEN AVERAGE(chin.px[y * 2 + 2][x], chin.px[y * 2 + 3][x])
                    ELSE IF chin.h % 2 = 1 THEN chin.px[y * 2 + 2][x] ELSE avg
      top == IF y > 0 THEN chin.px[y * 2 - 2][x] ELSE avg
  IN  <<top, avg, next_avg>>

\* The arguments of the predictor in the vertical step, for residual row y
\* and column x: <<top, avg, next_avg>>.
VPredictorArgs(chin, resh, y, x) ==
  LET A == chin.px[y * 2][x]
      B == chin.px[y * 2 + 1][x]
      avg == AVERAGE(A, B)
      next_avg == IF y + 1 < resh
                    THEN AVERAGE(chin.px[y * 2 + 2][x], chin.px[y * 2 + 3][x])
                    ELSE IF chin.h % 2 = 1 THEN chin.px[y * 2 + 2][x] ELSE avg
      top == IF y > 0 THEN chin.px[y * 2 - 1][x] ELSE avg
  IN  <<top, avg, next_avg>>

\* chout of the vertical step: lines 90-99 and the tail loop 117-124.
VChout(chin) ==
  LET chouth == (chin.h + 1) \div 2
      resh == chin.h - chouth
  IN  MkChannel(chin.w, chouth, chin.hshift, chin.vshift + 1,
        [y \in 0..(chouth - 1) |->
          [x \in 0..(chin.w - 1) |->
            IF y < resh
              THEN AVERAGE(chin.px[y * 2][x], chin.px[y * 2 + 1][x])
              ELSE chin.px[y * 2][x]]])

\* chout_residual of the vertical step.
VResidual(chin) ==
  LET chouth == (chin.h + 1) \div 2
      resh == chin.h - chouth
  IN  MkChannel(chin.w, resh, chin.hshift, chin.vshift + 1,
        [y \in 0..(resh - 1) |->
          [x \in 0..(chin.w - 1) |->
            LET args == VPredictorArgs(chin, resh, y, x)
                diff == chin.px[y * 2][x] - chin.px[y * 2 + 1][x]
            IN  diff - SmoothTendency(args[1], args[2], args[3])]])

(***************************************************************************)
(* Status values.  A Status is built from a bool at lines 73, 136 and 158; *)
(* a failure raised by a callee is handed on unchanged.                    *)
(***************************************************************************)
kOk == "kOk"
kGenericError == "kGenericError"

\* Status(bool ok)
StatusFromBool(ok) == IF ok THEN kOk ELSE kGenericError

\* JXL_FAILURE(...)
JXL_FAILURE == kGenericError

\* The outcomes of Channel::Create for the two channels of one step.
AllocOutcomes == {"ok", "chout_fails", "residual_fails"}

\* input.channel[c] = std::move(ch)
ReplaceAt(channel, slot, ch) == [channel EXCEPT ![slot + 1] = ch]

\* input.channel.insert(input.channel.begin() + rc, std::move(ch))
InsertAt(channel, rc, ch) ==
  SubSeq(channel, 1, rc) \o <<ch>> \o SubSeq(channel, rc + 1, Len(channel))

FwdHSqueeze_ReplacesBeforeSecondCreate(channel, cc, rc, alloc) ==
  LET chin == channel[cc + 1]
  IN  IF alloc = "chout_fails"
        THEN [status |-> JXL_FAILURE, channel |-> channel]
        ELSE IF alloc = "residual_fails"
          THEN [status |-> JXL_FAILURE,
                channel |-> ReplaceAt(channel, cc, HChout(chin))]
          ELSE [status |-> StatusFromBool(TRUE),
                channel |-> InsertAt(ReplaceAt(channel, cc, HChout(chin)),
                                     rc, HResidual(chin))]

\* Status FwdHSqueeze(Image &input, int c, int rc)
FwdHSqueeze(channel, cc, rc, alloc) ==
  LET chin == channel[cc + 1]
  IN  IF alloc = "chout_fails"
        THEN [status |-> JXL_FAILURE, channel |-> channel]
        ELSE IF alloc = "residual_fails"
          THEN [status |-> JXL_FAILURE, channel |-> channel]
          ELSE [status |-> StatusFromBool(TRUE),
                channel |-> InsertAt(ReplaceAt(channel, cc, HChout(chin)),
                                     rc, HResidual(chin))]

\* Status FwdVSqueeze(Image &input, int c, int rc)
FwdVSqueeze(channel, cc, rc, alloc) ==
  LET chin == channel[cc + 1]
  IN  IF alloc = "chout_fails"
        THEN [status |-> JXL_FAILURE, channel |-> channel]
        ELSE IF alloc = "residual_fails"
          THEN [status |-> JXL_FAILURE, channel |-> channel]
          ELSE [status |-> StatusFromBool(TRUE),
                channel |-> InsertAt(ReplaceAt(channel, cc, VChout(chin)),
                                     rc, VResidual(chin))]

(***************************************************************************)
(* The inverse of the horizontal step (the decoder's side): it walks each  *)
(* row left to right and rebuilds the pair (A, B) of column x from         *)
(* chout[y, x], the residual and the samples it has already rebuilt.       *)
(***************************************************************************)
RECURSIVE InvHPair(_, _, _, _)
InvHPair(p_avg, p_res, avgw, x) ==
  LET avg == p_avg[x]
      next_avg == IF x + 1 < avgw THEN p_avg[x + 1] ELSE avg
      left == IF x > 0 THEN InvHPair(p_avg, p_res, avgw, x - 1)[2] ELSE avg
      d == p_res[x] + SmoothTendency(left, avg, next_avg)
      A == avg + TruncDiv(d, 2)
      B == A - d
  IN  <<A, B>>

InvHSqueeze(chavg, chres) ==
  LET w == chavg.w + chres.w
  IN  MkChannel(w, chavg.h, chavg.hshift - 1, chavg.vshift,
        [y \in 0..(chavg.h - 1) |->
          [k \in 0..(w - 1) |->
            IF k < 2 * chres.w
              THEN InvHPair(chavg.px[y], chres.px[y], chavg.w, k \div 2)[1 + (k % 2)]
              ELSE chavg.px[y][chavg.w - 1]]])

(***************************************************************************)
(* Inputs.                                                                 *)
(***************************************************************************)
Samples == (-MaxVal)..MaxVal

Shapes == {s \in (0..MaxCells) \X (0..MaxCells) : s[1] * s[2] <= MaxCells}

\* The channels of width w and height h with every sample in Samples.
ChannelsOfShape(w, h) ==
  {MkChannel(w, h, 0, 0, px) : px \in [0..(h - 1) -> [0..(w - 1) -> Samples]]}

\* The row [10, 12, 14, 11, 9] as a channel of width 5 and height 1.
ExampleChannel ==
  MkChannel(5, 1, 0, 0,
    [y \in {0} |-> [x \in 0..4 |-> CASE x = 0 -> 10 [] x = 1 -> 12
                                      [] x = 2 -> 14 [] x = 3 -> 11
                                      [] x = 4 -> 9]])

\* Channel number i of the images the driver is run on: their shapes and
\* contents differ, and they have already been squeezed i times vertically.
TestChannel(i) ==
  MkChannel(1 + ((2 * i) % 5), 1 + (i % 3), 0, i,
    [y \in 0..(i % 3) |->
      [x \in 0..((2 * i) % 5) |-> ((7 * i + 3 * x + 5 * y * y + x * x * i) % 9) - 4]])

TestImage(n) == [i \in 1..n |-> TestChannel(i)]

\* struct SqueezeParams
ParamSets ==
  [horizontal : BOOLEAN, begin_c : 0..MaxBeginC, num_c : 0..MaxNumC,
   in_place : BOOLEAN]

NoParam == [horizontal |-> FALSE, begin_c |-> 0, num_c |-> 0, in_place |-> FALSE]

NoCall == [cc |-> 0, rc |-> 0, n |-> 0]

(***************************************************************************)
(* FwdSqueeze.                                                             *)
(***************************************************************************)
\* CheckMetaSqueezeParams(parameter, num_channels)
CheckMetaSqueezeParams(p, num_channels) ==
  IF p.num_c = 0 \/ p.begin_c + p.num_c > num_channels
    THEN JXL_FAILURE
    ELSE StatusFromBool(TRUE)

ValidationCount_AtCall(channel, channel0) == Len(channel0)

\* input.channel.size() as passed to CheckMetaSqueezeParams at line 139
ValidationCount(channel, channel0) == Len(channel)

BaseOffset_NoSkip(p, n) ==
  IF p.in_place THEN p.begin_c + p.num_c - 1 ELSE n

BaseOffset_AlwaysAppend(p, n) == n

\* lines 143-149: endc and offset
BaseOffset(p, n) ==
  IF p.in_place THEN (p.begin_c + p.num_c - 1) + 1 ELSE n

\* lines 132-136: the parameters are empty and so are the defaults.
ReturnNotApplied ==
  /\ pc' = "done"
  /\ result' = StatusFromBool(FALSE)
  /\ cause' = "not_applied"
  /\ UNCHANGED <<image, cur, pi, c, endc, offset, stepsDone, image0,
                 imageSet, imageStep, lastCall, recon, oracle>>

\* lines 132-136.  explicit: the caller passed parameters; defaults:
\* DefaultSqueezeParameters produced some.
Enter ==
  /\ pc = "start"
  /\ \E explicit \in BOOLEAN, defaults \in BOOLEAN :
       IF ~explicit /\ ~defaults
         THEN ReturnNotApplied
         ELSE /\ pc' = "loop"
              /\ UNCHANGED <<image, result, cause, cur, pi, c, endc, offset,
                             stepsDone, image0, imageSet, imageStep, lastCall,
                             recon, oracle>>

\* lines 137-149: the next parameter set is validated and its offset computed.
NextParameter ==
  /\ pc = "loop"
  /\ pi < MaxParams
  /\ \E p \in ParamSets :
       /\ cur' = p
       /\ pi' = pi + 1
       /\ imageSet' = image
       /\ IF CheckMetaSqueezeParams(p, ValidationCount(image, image0)) # kOk
            THEN /\ pc' = "done"
                 /\ result' = CheckMetaSqueezeParams(p, ValidationCount(image, image0))
                 /\ cause' = "validation"
                 /\ UNCHANGED <<c, endc, offset>>
            ELSE /\ pc' = "step"
                 /\ c' = p.begin_c
                 /\ endc' = p.begin_c + p.num_c - 1
                 /\ offset' = BaseOffset(p, Len(image))
                 /\ UNCHANGED <<result, cause>>
  /\ UNCHANGED <<image, stepsDone, image0, imageStep, lastCall, recon, oracle>>

\* What follows one step call of lines 150-156.
AfterStep(r, rc) ==
  /\ image' = r.channel
  /\ imageStep' = image
  /\ lastCall' = [cc |-> c, rc |-> rc, n |-> Len(image)]
  /\ IF r.status # kOk
       THEN /\ pc' = "done"
            /\ result' = r.status
            /\ cause' = "allocation"
            /\ UNCHANGED <<c, stepsDone>>
       ELSE /\ c' = c + 1
            /\ stepsDone' = stepsDone + 1
            /\ pc' = IF c + 1 <= endc THEN "step" ELSE "loop"
            /\ UNCHANGED <<result, cause>>
  /\ UNCHANGED <<cur, pi, endc, offset, image0, imageSet, recon, oracle>>

\* line 152
HStep ==
  /\ pc = "step"
  /\ c <= endc
  /\ cur.horizontal
  /\ \E alloc \in AllocOutcomes :
       AfterStep(FwdHSqueeze(image, c, offset + c - cur.begin_c, alloc),
                 offset + c - cur.begin_c)

\* line 154
VStep ==
  /\ pc = "step"
  /\ c <= endc
  /\ ~cur.horizontal
  /\ \E alloc \in AllocOutcomes :
       AfterStep(FwdVSqueeze(image, c, offset + c - cur.begin_c, alloc),
                 offset + c - cur.begin_c)

\* line 158: the sequence is exhausted.
ReturnApplied ==
  /\ pc = "loop"
  /\ pi >= 1
  /\ pc' = "done"
  /\ result' = StatusFromBool(TRUE)
  /\ cause' = "applied"
  /\ UNCHANGED <<image, cur, pi, c, endc, offset, stepsDone, image0,
                 imageSet, imageStep, lastCall, recon, oracle>>

Init ==
  /\ image \in {TestImage(n) : n \in 0..MaxChannels}
  /\ image0 = image
  /\ imageSet = image
  /\ imageStep = image
  /\ pc = "start"
  /\ result = "none"
  /\ cause = "none"
  /\ cur = NoParam
  /\ pi = 0
  /\ c = 0
  /\ endc = 0
  /\ offset = 0
  /\ stepsDone = 0
  /\ lastCall = NoCall
  /\ recon = <<>>
  /\ oracle = "smooth"

Next == Enter \/ NextParameter \/ HStep \/ VStep \/ ReturnApplied

Spec == Init /\ [][Next]_vars

(***************************************************************************)
(* The single steps on every small channel: one channel is squeezed        *)
(* horizontally or vertically, and the horizontal result is inverted.      *)
(***************************************************************************)
InitStep ==
  /\ \/ \E s \in Shapes : \E ch \in ChannelsOfShape(s[1], s[2]) : image = <<ch>>
     \/ image = <<ExampleChannel>>
     \/ \E i \in 1..MaxChannels : image = <<TestChannel(i)>>
  /\ oracle \in TendencyOracles
  /\ image0 = image
  /\ imageSet = image
  /\ imageStep = image
  /\ pc = "chin"
  /\ result = "none"
  /\ cause = "none"
  /\ cur = NoParam
  /\ pi = 0
  /\ c = 0
  /\ endc = 0
  /\ offset = 0
  /\ stepsDone = 0
  /\ lastCall = NoCall
  /\ recon = <<>>

HSqueezeOne ==
  /\ pc = "chin"
  /\ pc' = "hsq"
  /\ image' = FwdHSqueeze(image, 0, 1, "ok").channel
  /\ UNCHANGED <<result, cause, cur, pi, c, endc, offset, stepsDone, image0,
                 imageSet, imageStep, lastCall, recon, oracle>>

VSqueezeOne ==
  /\ pc = "chin"
  /\ pc' = "vsq"
  /\ image' = FwdVSqueeze(image, 0, 1, "ok").channel
  /\ UNCHANGED <<result, cause, cur, pi, c, endc, offset, stepsDone, image0,
                 imageSet, imageStep, lastCall, recon, oracle>>

InvHOne ==
  /\ pc = "hsq"
  /\ pc' = "hinv"
  /\ recon' = InvHSqueeze(image[1], image[2])
  /\ UNCHANGED <<image, result, cause, cur, pi, c, endc, offset, stepsDone,
                 image0, imageSet, imageStep, lastCall, oracle>>

NextStep == HSqueezeOne \/ VSqueezeOne \/ InvHOne

SpecStep == InitStep /\ [][NextStep]_vars

(***************************************************************************)
(* Properties.                                                             *)
(***************************************************************************)
\* A parameter set has run to its end: the loop is back at its head, or the
\* call has returned success.
SetComplete ==
  /\ pi >= 1
  /\ \/ pc = "loop"
     \/ pc = "done" /\ cause = "applied"

Averaged(p, ch) == IF p.horizontal THEN HChout(ch) ELSE VChout(ch)

ResidualOf(p, ch) == IF p.horizontal THEN HResidual(ch) ELSE VResidual(ch)

\* The layout the claim describes for set p applied to the sequence s0.
ExpectedAfterSet(s0, p) ==
  LET n == Len(s0)
      b == p.begin_c
      k == p.num_c
      e == b + k - 1
  IN  [i \in 1..(n + k) |->
        LET slot == i - 1
        IN  IF slot < b THEN s0[slot + 1]
            ELSE IF slot <= e THEN Averaged(p, s0[slot + 1])
            ELSE IF p.in_place
              THEN IF slot <= e + k
                     THEN ResidualOf(p, s0[slot - k + 1])
                     ELSE s0[slot - k + 1]
              ELSE IF slot < n
                     THEN s0[slot + 1]
                     ELSE ResidualOf(p, s0[b + (slot - n) + 1])]

\* C1: after a valid parameter set completes, slots begin_c..endc hold the
\* averaged versions of the original channels in order, and the num_c
\* residuals form one run in source order: at endc+1..endc+num_c when in_place
\* (the channels after endc shifted right by num_c), at n..n+num_c-1 otherwise;
\* every other channel is unchanged and no residual of the set is squeezed.
C1_SetLayout ==
  SetComplete => image = ExpectedAfterSet(imageSet, cur)

C1_Witness ==
  /\ SetComplete
  /\ cur.in_place
  /\ cur.num_c = 2
  /\ Len(imageSet) > cur.begin_c + cur.num_c
  /\ cur.begin_c = 1

ValidSet(p, n) == p.num_c # 0 /\ p.begin_c + p.num_c <= n

\* C2 as stated: whenever the call fails validation, the image equals its
\* value before the call, wherever the invalid set sits in the sequence.
C2_Original ==
  (pc = "done" /\ cause = "validation") => image = image0

\* C2 as amended: a set that is invalid against the channel count current at
\* its turn fails the call with a validation error and mutates nothing; the
\* image is then exactly as the sets before it left it (unchanged from before
\* the call when the invalid set is the first), and no valid set is rejected.
C2_Amended ==
  /\ cause = "validation" =>
       /\ pc = "done"
       /\ result = JXL_FAILURE
       /\ ~ValidSet(cur, Len(imageSet))
       /\ image = imageSet
       /\ Len(image) = Len(image0) + stepsDone
       /\ pi = 1 => image = image0
  /\ (pi >= 1 /\ ~ValidSet(cur, Len(imageSet))) => cause = "validation"

C2_Witness ==
  /\ pc = "done"
  /\ cause = "validation"
  /\ pi = 2
  /\ image # image0

\* C3: the inverse horizontal step rebuilds every sample of the input channel
\* from (chout, chout_residual), for each tendency oracle; so the pair
\* determines the input.
C3_RoundTrip ==
  pc = "hinv" => recon = image0[1]

C3_Witness ==
  /\ pc = "hinv"
  /\ oracle = "smooth"
  /\ image0[1].w = 3
  /\ image0[1].h = 1
  /\ image0[1].px[0][0] < 0
  /\ image0[1].px[0][0] > image0[1].px[0][1]
  /\ (image0[1].px[0][0] + image0[1].px[0][1]) % 2 = 1
  /\ image[2].px[0][0] # image0[1].px[0][0] - image0[1].px[0][1]

CeilHalf(w) == (w + (w % 2)) \div 2

FloorHalf(w) == (w - (w % 2)) \div 2

\* C4: for width w >= 1 the horizontal step leaves chout of width ceil(w/2),
\* the same height, hshift + 1 and the same vshift, and a residual of width
\* floor(w/2) with the same height and shifts; for odd w the last column of
\* chout is the last column of the input and the residual has no column for it.
C4_Shapes ==
  (pc = "hsq" /\ image0[1].w >= 1) =>
    LET chin == image0[1]
        chout == image[1]
        res == image[2]
    IN  /\ Len(image) = 2
        /\ chout.w = CeilHalf(chin.w)
        /\ chout.h = chin.h
        /\ chout.hshift = chin.hshift + 1
        /\ chout.vshift = chin.vshift
        /\ res.w = FloorHalf(chin.w)
        /\ res.h = chin.h
        /\ res.hshift = chout.hshift
        /\ res.vshift = chout.vshift
        /\ chout.w + res.w = chin.w
        /\ chin.w % 2 = 0 => (2 * chout.w = chin.w /\ 2 * res.w = chin.w)
        /\ DOMAIN chout.px = 0..(chin.h - 1)
        /\ DOMAIN res.px = 0..(chin.h - 1)
        /\ \A y \in 0..(chin.h - 1) :
             /\ DOMAIN chout.px[y] = 0..(chout.w - 1)
             /\ DOMAIN res.px[y] = 0..(res.w - 1)
             /\ chin.w % 2 = 1 =>
                  chout.px[y][CeilHalf(chin.w) - 1] = chin.px[y][chin.w - 1]
        /\ chin = ExampleChannel =>
             /\ chout.px[0][0] = AVERAGE(10, 12)
             /\ chout.px[0][1] = AVERAGE(14, 11)
             /\ chout.px[0][2] = 9
             /\ res.w = 2

C4_Witness ==
  /\ pc = "hsq"
  /\ image0[1] = ExampleChannel
  /\ image[1].w = 3
  /\ image[1].px[0][2] = 9
  /\ image[2].w = 2

\* The pairs (A, B) of the input and the average stored for each.
PairsOf(chin, chout) ==
  {<<chin.px[y][2 * x], chin.px[y][2 * x + 1], chout.px[y][x]>> :
     y \in 0..(chin.h - 1), x \in 0..(FloorHalf(chin.w) - 1)}

\* C5 as stated: for A > B with odd sum the stored average is the neighbour
\* of (A+B)/2 nearer to B; for even sum it is (A+B)/2; 2*avg is within 1 of A+B.
C5_Original ==
  pc = "hsq" =>
    \A t \in PairsOf(image0[1], image[1]) :
      LET A == t[1]
          B == t[2]
          avg == t[3]
      IN  /\ Abs(2 * avg - (A + B)) <= 1
          /\ (A + B) % 2 = 0 => 2 * avg = A + B
          /\ ((A + B) % 2 = 1 /\ A > B) => Abs(avg - B) < Abs(avg - A)

\* C5 as amended: for A > B with odd sum the stored average is the neighbour
\* of (A+B)/2 nearer to A (rounded toward A); the rest as stated.
C5_Amended ==
  pc = "hsq" =>
    \A t \in PairsOf(image0[1], image[1]) :
      LET A == t[1]
          B == t[2]
          avg == t[3]
      IN  /\ Abs(2 * avg - (A + B)) <= 1
          /\ (A + B) % 2 = 0 => 2 * avg = A + B
          /\ ((A + B) % 2 = 1 /\ A > B) => Abs(avg - A) < Abs(avg - B)

C5_Witness ==
  /\ pc = "hsq"
  /\ \E t \in PairsOf(image0[1], image[1]) :
       /\ t[1] > t[2]
       /\ (t[1] + t[2]) % 2 = 1
       /\ t[1] < 0
       /\ t[3] = t[1]

\* C6 as stated: with no parameters and no defaults the image is unchanged
\* and the returned value differs from the success value and from the value
\* returned on a validation or allocation failure.
C6_NotAppliedDistinct ==
  cause = "not_applied" =>
    /\ image = image0
    /\ result # StatusFromBool(TRUE)
    /\ result # JXL_FAILURE

\* C7: a failed channel creation leaves the channel sequence as it was when
\* the step began; the call returns the error at once, and the steps
\* completed before stay applied.
C7_AllocationFailure ==
  cause = "allocation" =>
    /\ pc = "done"
    /\ result = JXL_FAILURE
    /\ image = imageStep
    /\ Len(image) = Len(image0) + stepsDone
    /\ ~ENABLED Next

C7_Witness ==
  /\ cause = "allocation"
  /\ stepsDone >= 2
  /\ cur.horizontal
  /\ image # image0

\* C8: every step is called with 0 <= c < channel count and
\* c < rc <= channel count, and the sequence grows by one channel per step,
\* by num_c per parameter set.
C8_CallsInBounds ==
  /\ pc = "step" =>
       /\ 0 <= c /\ c < Len(image)
       /\ c < offset + c - cur.begin_c
       /\ offset + c - cur.begin_c <= Len(image)
  /\ lastCall # NoCall =>
       /\ 0 <= lastCall.cc /\ lastCall.cc < lastCall.n
       /\ lastCall.cc < lastCall.rc /\ lastCall.rc <= lastCall.n
  /\ pc \in {"start", "loop", "step", "done"} =>
       Len(image) = Len(image0) + stepsDone
  /\ SetComplete => Len(image) = Len(imageSet) + cur.num_c

C8_Witness ==
  /\ pc = "step"
  /\ pi = 2
  /\ stepsDone = 3
  /\ c = cur.begin_c + 1
  /\ ~cur.in_place

Transpose(ch) ==
  MkChannel(ch.h, ch.w, ch.vshift, ch.hshift,
    [y \in 0..(ch.w - 1) |-> [x \in 0..(ch.h - 1) |-> ch.px[x][y]]])

\* C9: the vertical step yields the transposes of what the horizontal step
\* yields on the transposed channel, shifts exchanged, at the same positions.
C9_VerticalIsTransposedHorizontal ==
  pc = "vsq" =>
    LET h == FwdHSqueeze(<<Transpose(image0[1])>>, 0, 1, "ok").channel
    IN  image = [i \in 1..Len(h) |-> Transpose(h[i])]

C9_Witness ==
  /\ pc = "vsq"
  /\ image0[1] = TestChannel(2)
  /\ image[1].h = 2
  /\ image[2].h = 1

\* C10: the predictor's arguments for residual column x are values the
\* decoder holds: next_avg is chout[y, x+1] when that column exists and
\* chout[y, x] otherwise, center is chout[y, x], left is chin[y, 2x-1] for
\* x > 0 and chout[y, 0] for x = 0; the residual is the pair's difference
\* less the tendency of these.
C10_PredictorInputs ==
  pc = "hsq" =>
    LET chin == image0[1]
        chout == image[1]
        res == image[2]
    IN  \A y \in 0..(chin.h - 1) : \A x \in 0..(res.w - 1) :
          LET args == HPredictorArgs(chin.px[y], chin.w, res.w, x)
              left == IF x > 0 THEN chin.px[y][2 * x - 1] ELSE chout.px[y][0]
              center == chout.px[y][x]
              next == IF x + 1 < chout.w THEN chout.px[y][x + 1] ELSE chout.px[y][x]
          IN  /\ args = <<left, center, next>>
              /\ res.px[y][x] = (chin.px[y][2 * x] - chin.px[y][2 * x + 1])
                                  - SmoothTendency(left, center, next)

C10_Witness ==
  /\ pc = "hsq"
  /\ oracle = "smooth"
  /\ image0[1].w = 4
  /\ image0[1].h = 1
  /\ image[1].px[0][0] # image0[1].px[0][0]
  /\ image[2].px[0][0] # image0[1].px[0][0] - image0[1].px[0][1]

====
